---- MODULE Spec2Model ----
(***************************************************************************)
(* The autoregressive inference core of mindnlp/models/glm/chatglm.py:     *)
(* the per-layer fixed-capacity key/value cache (SelfAttention), the mask  *)
(* construction of the decoder stack (ChatGLMModel.construct) and the      *)
(* streaming generation loop (stream_generate) that drives them.           *)
(*                                                                         *)
(* Tensors are abstracted to what the cache protocol moves around: the     *)
(* key/value of a token is a tag naming the session that computed it, the  *)
(* sequence index of the token and the token id.  A zeroed slot is Zero.   *)
(***************************************************************************)
EXTENDS Integers, Sequences, FiniteSets, TLC

(* ------------------------------------------------------------------ *)
(* Configuration (ChatGLMConfig), scaled down                          *)
(* ------------------------------------------------------------------ *)
mask_token_id == 0
gmask_token_id == 1
bos_token_id == 2
vocab_size == 6
max_sequence_length == 5
num_layers == 2
max_batch_size == 1
\* the token InvalidScoreLogitsProcessor falls back to (line 94)
fallback_token_id == 5
\* the score it gets, 5e4 (line 94)
fallback_score == 50000
\* the largest float16 (65504), on the scale of view_score
float16_max == 120

(* ------------------------------------------------------------------ *)
(* Bounds of the model                                                 *)
(* ------------------------------------------------------------------ *)
MaxLength == 4

None == 0 - 1

Vocab == 0 .. (vocab_size - 1)
Layers == 0 .. (num_layers - 1)
Slots == 0 .. (max_sequence_length - 1)
\* the calls of stream_generate made on the one model: a first and a second
Sessions == 1 .. 2

Min(a, b) == IF a < b THEN a ELSE b
Max(a, b) == IF a > b THEN a ELSE b

(* ------------------------------------------------------------------ *)
(* State                                                               *)
(* ------------------------------------------------------------------ *)
VARIABLES
    cache_k,                \* cache_k[l][j][b]: SelfAttention.cache_k of layer l
    cache_v,                \* cache_v[l][j][b]: SelfAttention.cache_v of layer l
    gen,                    \* the generation settings of the calls
    sched,                  \* how the caller runs its sessions, config.max_batch_size,
                            \* config.pre_seq_len
    pc,                     \* pc[s]: where the generator of session s stands
    call,                   \* call[s]: the arguments of the stream_generate call
    input_ids,              \* input_ids[s][b]: the running token sequence
    model_kwargs,           \* model_kwargs[s]: start_pos, attention_mask
    unfinished_sequences,   \* unfinished_sequences[s][b]
    yielded,                \* yielded[s]: the sequences handed to the consumer
    fwd,                    \* fwd[s]: the forward passes run so far (history)
    scored,                 \* scored[s]: the scores of every step (history)
    layers                  \* ChatGLMModel.layers: the blocks as constructed

vars == <<cache_k, cache_v, gen, sched, layers, pc, call, input_ids, model_kwargs,
          unfinished_sequences, yielded, fwd, scored>>

\* the rows of a batch: the second axis of the cache buffers (lines 201-210)
Batch == 1 .. sched.max_batch_size

(* ------------------------------------------------------------------ *)
(* Key/value cache (SelfAttention.__init__, attention_fn)              *)
(* ------------------------------------------------------------------ *)
Zero == [kind |-> "0", owner |-> 0, idx |-> None, tok |-> None, pos |-> <<>>]

\* the rotated key of the token t at sequence index i, rotated by position p
Key(s, i, t, p) == [kind |-> "k", owner |-> s, idx |-> i, tok |-> t, pos |-> p]

Value(s, i, t, p) == [kind |-> "v", owner |-> s, idx |-> i, tok |-> t, pos |-> p]

\* initializer('zeros', (max_seq_len, max_batch_size, heads, head_dim))
zeros_like == [j \in Slots |-> [b \in Batch |-> Zero]]

\* ops.scatter_update(buffer, indices, updates): row n of updates goes to
\* slot indices[n]; the slots no index names keep their content
scatter_update(buf, indices, updates) ==
    [j \in Slots |->
        IF \E n \in DOMAIN indices : indices[n] = j
        THEN updates[CHOOSE n \in DOMAIN indices : indices[n] = j]
        ELSE buf[j]]

\* an update that zeroes the buffer on every call
cache_update_reset_always(buf, layer, seq_len, start_pos) ==
    LET indices == IF seq_len > 1 THEN [n \in 1 .. seq_len |-> n - 1]
                   ELSE <<start_pos>>
    IN scatter_update(zeros_like, indices, layer)

\* an update that never zeroes the buffer
cache_update_without_reset(buf, layer, seq_len, start_pos) ==
    LET indices == IF seq_len > 1 THEN [n \in 1 .. seq_len |-> n - 1]
                   ELSE <<start_pos>>
    IN scatter_update(buf, indices, layer)

\* lines 308-317 for one of the two buffers: a call with more than one
\* position zeroes the buffer and writes [0, seq_len); a call with one
\* position writes slot start_pos only
cache_update(buf, layer, seq_len, start_pos) ==
    LET indices == IF seq_len > 1 THEN [n \in 1 .. seq_len |-> n - 1]
                   ELSE <<start_pos>>
        base == IF seq_len > 1 THEN zeros_like ELSE buf
    IN scatter_update(base, indices, layer)

\* lines 315-316 with an index beyond the buffer: nothing in the code checks
\* the index, and what ops.scatter_update does with it is up to the kernel
\* of the device: it raises, or it leaves the update out
scatter_outcomes(seq_len, start_pos) ==
    IF (seq_len > 1 /\ seq_len - 1 \in Slots) \/ (seq_len = 1 /\ start_pos \in Slots)
    THEN {"in_range"}
    ELSE {"raise", "ignore"}

\* lines 319-320 and 335-349: the keys read back are the prefix
\* [0, bucket_size) of the buffer, and masked_fill needs the mask to be as
\* wide as the keys read back (a mismatch is a fatal shape error, raised
\* after the buffers were written)
attention_fn(ck, cv, key_layer, value_layer, mask_width, seq_len, start_pos, bucket_size, out_of_range) ==
    LET raised == out_of_range = "raise"
        \* both buffers are zeroed (lines 311-312) before the first scatter
        nk == IF ~raised THEN cache_update(ck, key_layer, seq_len, start_pos)
              ELSE IF seq_len > 1 THEN zeros_like ELSE ck
        nv == IF ~raised THEN cache_update(cv, value_layer, seq_len, start_pos)
              ELSE IF seq_len > 1 THEN zeros_like ELSE cv
        sk == Min(bucket_size, max_sequence_length)
    IN [cache_k |-> nk, cache_v |-> nv,
        error |-> raised \/ sk # mask_width,
        key_layer |-> [j \in 0 .. (sk - 1) |-> nk[j]],
        value_layer |-> [j \in 0 .. (sk - 1) |-> nv[j]]]

(* ------------------------------------------------------------------ *)
(* Masks and position ids (ChatGLMPreTrainedModel)                     *)
(* ------------------------------------------------------------------ *)
Contains(seq, t) == \E n \in 1 .. Len(seq) : seq[n] = t

\* list.index(t), 0-based; the caller checks Contains first (ValueError)
IndexOf(seq, t) == (CHOOSE n \in 1 .. Len(seq) :
                        seq[n] = t /\ \A m \in 1 .. (n - 1) : seq[m] # t) - 1

\* get_masks: TRUE marks a masked (disallowed) pair; the context before
\* the first bos is visible to every row, the rest is causal
get_masks(ids) ==
    [b \in Batch |->
        LET L == Len(ids[b])
            context_length == IndexOf(ids[b], bos_token_id)
        IN [i \in 0 .. (L - 1) |->
               [j \in 0 .. (L - 1) |-> ~(j <= i \/ j < context_length)]]]

\* get_position_ids, 2-D mode: <<token position, block position>> per column
get_position_ids(ids, mask_positions) ==
    [b \in Batch |->
        LET L == Len(ids[b])
            context_length == IndexOf(ids[b], bos_token_id)
        IN [n \in 1 .. L |->
               IF n - 1 < context_length
               THEN <<n - 1, 0>>
               ELSE <<mask_positions[b], n - 1 - context_length + 1>>]]

(* ------------------------------------------------------------------ *)
(* Decoder stack (ChatGLMModel.construct)                              *)
(* ------------------------------------------------------------------ *)
Width(mask) == Cardinality(DOMAIN mask[0])

\* get_prompt (lines 668-683): the key and the value of the prefix position
\* j for layer l, as the prefix encoder computes them
PrefixKey(l, j) == [kind |-> "pk", owner |-> 0, idx |-> j, tok |-> None, pos |-> <<l>>]

PrefixValue(l, j) == [kind |-> "pv", owner |-> 0, idx |-> j, tok |-> None, pos |-> <<l>>]

get_prompt(l) ==
    [j \in 0 .. (sched.pre_seq_len - 1) |->
        [b \in Batch |-> <<PrefixKey(l, j), PrefixValue(l, j)>>]]

\* lines 707-710: with a prefix configured, pre_seq_len allowed columns are
\* put in front of the mask that came with the call
prefix_attention_mask(attention_mask) ==
    IF sched.pre_seq_len = None THEN attention_mask
    ELSE [i \in DOMAIN attention_mask |->
             [j \in 0 .. (sched.pre_seq_len + Width(attention_mask) - 1) |->
                 IF j < sched.pre_seq_len THEN FALSE
                 ELSE attention_mask[i][j - sched.pre_seq_len]]]

\* a decode mask that hides everything after start_pos
layer_mask_after_start_pos(attention_mask, seq_len, start_pos, bucket_size) ==
    IF seq_len > 1
    THEN LET w == Width(attention_mask)
         IN [i \in 0 .. (seq_len - 1) |->
                [j \in 0 .. (w + (bucket_size - seq_len) - 1) |->
                    IF j < w THEN attention_mask[i][j] ELSE TRUE]]
    ELSE [i \in {0} |-> [j \in 0 .. (bucket_size - 1) |-> j > start_pos]]

\* a prefill mask whose padding is left visible
layer_mask_open_padding(attention_mask, seq_len, start_pos, bucket_size) ==
    IF seq_len > 1
    THEN LET w == Width(attention_mask)
         IN [i \in 0 .. (seq_len - 1) |->
                [j \in 0 .. (w + (bucket_size - seq_len) - 1) |->
                    IF j < w THEN attention_mask[i][j] ELSE FALSE]]
    ELSE [i \in {0} |-> [j \in 0 .. (bucket_size - 1) |-> j > start_pos + seq_len]]

\* lines 712-718: the mask handed to the layers.  A call with more than one
\* token pads the supplied mask with bucket_size - seq_len masked columns; a
\* call with one token ignores it and synthesizes one row
layer_mask(attention_mask, seq_len, start_pos, bucket_size) ==
    IF seq_len > 1
    THEN LET w == Width(attention_mask)
         IN [i \in 0 .. (seq_len - 1) |->
                [j \in 0 .. (w + (bucket_size - seq_len) - 1) |->
                    IF j < w THEN attention_mask[i][j] ELSE TRUE]]
    ELSE [i \in {0} |-> [j \in 0 .. (bucket_size - 1) |-> j > start_pos + seq_len]]

\* lines 726-738: the layers run in order, each writes its cache and reads
\* it back; the first layer that raises ends the call
layers_result(res, ck, cv) ==
    LET ran(l) == \A m \in Layers : res[m].error => l <= m
    IN [cache_k |-> [l \in Layers |-> IF ran(l) THEN res[l].cache_k ELSE ck[l]],
        cache_v |-> [l \in Layers |-> IF ran(l) THEN res[l].cache_v ELSE cv[l]],
        error |-> \E l \in Layers : res[l].error,
        key_layer |-> [l \in Layers |-> res[l].key_layer],
        value_layer |-> [l \in Layers |-> res[l].value_layer]]

run_layers(ck, cv, keys, values, mask_width, seq_len, start_pos, bucket_size, out_of_range) ==
    CHOOSE r \in {layers_result(res, ck, cv) :
                    res \in {[l \in Layers |->
                                attention_fn(ck[l], cv[l], keys, values, mask_width,
                                             seq_len, start_pos, bucket_size,
                                             out_of_range)]}} : TRUE

\* lines 740-748 and 1082: what the call returns.  view is what the last
\* query row attends to, per batch row and layer: the slots the mask leaves
\* visible, <<>> for a masked one
construct_result(out, mask, seq_len) ==
    [cache_k |-> out.cache_k, cache_v |-> out.cache_v, error |-> out.error,
     mask |-> mask,
     view |-> IF out.error THEN <<>>
              ELSE [b \in Batch |-> [l \in Layers |->
                     [j \in DOMAIN out.key_layer[l] |->
                         IF mask[b][seq_len - 1][j] THEN <<>>
                         ELSE <<out.key_layer[l][j][b], out.value_layer[l][j][b]>>]]]]

\* ChatGLMModel.construct, called by session s; first_idx is the sequence
\* index of the first token of the call
construct(s, ck, cv, tokens, first_idx, position_ids, attention_mask, start_pos, bucket_size, out_of_range) ==
    LET seq_len == Len(tokens[1])
        \* lines 714-716: the padding is ops.ones((1, 1, seq_len, bucket_size -
        \* seq_len)); ops.concat wants every other axis equal, the batch axis too
        concat_error == seq_len > 1 /\ (Cardinality(DOMAIN tokens) # 1 \/ bucket_size < seq_len)
        keys == [n \in 1 .. seq_len |-> [b \in Batch |->
                    Key(s, first_idx + n - 1, tokens[b][n], position_ids[b][n])]]
        values == [n \in 1 .. seq_len |-> [b \in Batch |->
                    Value(s, first_idx + n - 1, tokens[b][n], position_ids[b][n])]]
    IN IF concat_error
       THEN [cache_k |-> ck, cache_v |-> cv, error |-> TRUE, mask |-> <<>>, view |-> <<>>]
       ELSE
       CHOOSE r \in
         {construct_result(
              run_layers(ck, cv, keys, values, Width(mask[1]),
                         seq_len, start_pos, bucket_size, out_of_range),
              mask, seq_len) :
            mask \in {[b \in Batch |->
                        layer_mask(prefix_attention_mask(attention_mask[b]),
                                   seq_len, start_pos, bucket_size)]}} : TRUE

(* ------------------------------------------------------------------ *)
(* Generation driver (ChatGLMForConditionalGeneration)                 *)
(* ------------------------------------------------------------------ *)
\* lines 825-829: the mask token of a sequence, gMASK before MASK
mask_token(seq) == IF Contains(seq, gmask_token_id) THEN gmask_token_id
                   ELSE mask_token_id

\* a bucket that is the sequence length rounded up to the granularity
bucket_of_rounded_up(seq_length, bucket_size) == ((seq_length + bucket_size - 1) \div bucket_size) * bucket_size

\* line 831
bucket_of(seq_length, bucket_size) == ((seq_length \div bucket_size) + 1) * bucket_size

\* prepare_inputs_for_generation(input_ids, **model_kwargs).  An optional
\* argument is <<>> (None) or <<x>>.  error is the ValueError of list.index
prepare_inputs_for_generation(ids, kw, bucket_size) ==
    LET seq_length == Len(ids[1])
        has_mask == \A b \in Batch : Contains(ids[b], mask_token(ids[b]))
        has_bos == \A b \in Batch : Contains(ids[b], bos_token_id)
        mask_positions == [b \in Batch |-> IndexOf(ids[b], mask_token(ids[b]))]
        bucket == bucket_of(seq_length, bucket_size)
    IN IF ~has_mask THEN [error |-> TRUE]
       ELSE IF kw.start_pos # None
       THEN \* lines 833-855: only the last token
            IF kw.position_ids = <<>> /\ ~has_bos THEN [error |-> TRUE]
            ELSE [error |-> FALSE,
                  input_ids |-> [b \in Batch |-> <<ids[b][seq_length]>>],
                  first_idx |-> seq_length - 1,
                  position_ids |->
                      IF kw.position_ids # <<>>
                      THEN [b \in Batch |->
                               <<kw.position_ids[1][b][Len(kw.position_ids[1][b])]>>]
                      ELSE [b \in Batch |->
                               << <<mask_positions[b],
                                    seq_length - IndexOf(ids[b], bos_token_id)>> >>],
                  attention_mask |->
                      IF kw.attention_mask # <<>>
                      THEN [b \in Batch |-> [i \in {0} |->
                               kw.attention_mask[1][b][Width(kw.attention_mask[1][b]) - 1]]]
                      ELSE [b \in Batch |-> [i \in {0} |-> [j \in {0} |-> FALSE]]],
                  start_pos |-> kw.start_pos,
                  bucket_size |-> bucket]
       ELSE \* lines 857-869: the whole sequence, start_pos = 0
            IF (kw.attention_mask = <<>> \/ kw.position_ids = <<>>) /\ ~has_bos
            THEN [error |-> TRUE]
            ELSE [error |-> FALSE,
                  input_ids |-> ids,
                  first_idx |-> 0,
                  position_ids |-> IF kw.position_ids # <<>> THEN kw.position_ids[1]
                                   ELSE get_position_ids(ids, mask_positions),
                  attention_mask |-> IF kw.attention_mask # <<>> THEN kw.attention_mask[1]
                                     ELSE get_masks(ids),
                  start_pos |-> 0,
                  bucket_size |-> bucket]

\* an update whose new column is allowed in every row
extend_mask_open_column(m) ==
    LET L == Width(m)
        rows == Cardinality(DOMAIN m)
    IN [i \in 0 .. rows |->
           [j \in 0 .. L |-> IF j < L THEN m[Min(i, rows - 1)][j] ELSE FALSE]]

\* lines 789-799: one masked column is appended to every row, then one row,
\* the copy of the last row with its last entry allowed
extend_mask(m) ==
    LET L == Width(m)
        rows == Cardinality(DOMAIN m)
        wide == [i \in 0 .. (rows - 1) |->
                    [j \in 0 .. L |-> IF j < L THEN m[i][j] ELSE TRUE]]
    IN [i \in 0 .. rows |->
           IF i < rows THEN wide[i]
           ELSE [j \in 0 .. L |-> IF j < L THEN wide[rows - 1][j] ELSE FALSE]]

\* lines 801-808: the last column again, its block position increased by one
extend_position_ids(p) == Append(p, <<p[Len(p)][1], p[Len(p)][2] + 1>>)

\* an update that forgets to store start_pos
update_model_kwargs_without_start_pos(start_pos, kw) ==
    [start_pos |-> None,
     attention_mask |->
         IF kw.attention_mask # <<>>
         THEN << [b \in Batch |-> extend_mask(kw.attention_mask[1][b])] >>
         ELSE <<>>,
     position_ids |->
         IF kw.position_ids # <<>>
         THEN << [b \in Batch |-> extend_position_ids(kw.position_ids[1][b])] >>
         ELSE <<>>]

\* _update_model_kwargs_for_generation(outputs, start_pos, model_kwargs)
update_model_kwargs_for_generation(start_pos, kw) ==
    [start_pos |-> start_pos,
     attention_mask |->
         IF kw.attention_mask # <<>>
         THEN << [b \in Batch |-> extend_mask(kw.attention_mask[1][b])] >>
         ELSE <<>>,
     position_ids |->
         IF kw.position_ids # <<>>
         THEN << [b \in Batch |-> extend_position_ids(kw.position_ids[1][b])] >>
         ELSE <<>>]

\* lines 1025-1042: max_new_tokens, when set, takes precedence
max_length_of(g, input_ids_seq_length) ==
    IF g.max_new_tokens # None THEN g.max_new_tokens + input_ids_seq_length
    ELSE g.max_length

\* line 1101: sum(next_tokens != i for i in eos_token_id)
eos_sum(next_token, eos_token_id) ==
    Cardinality({n \in 1 .. Len(eos_token_id) : next_token # eos_token_id[n]})

\* line 1104, the criteria _get_stopping_criteria builds from max_length:
\* stop once the sequence has reached the maximum length
stopping_criteria(ids, max_length) == Len(ids[1]) >= max_length

\* The network with its weights fixed: the scores of the next token are a
\* function of what the last query row attends to, the visible slots of every
\* layer (a masked slot contributes nothing, a zeroed slot a zero key and
\* value).  ops.argmax (line 1093) of that function:
slot_value(x) == IF x = Zero THEN 0 ELSE 1 + x.tok + x.idx

RECURSIVE row_score(_, _)
row_score(row, n) ==
    IF n = 0 THEN 0
    ELSE row_score(row, n - 1)
         + (IF row[n - 1] = <<>> THEN 0
            ELSE n * slot_value(row[n - 1][1]) + slot_value(row[n - 1][2]))

RECURSIVE view_score(_, _)
view_score(view, l) ==
    IF l = 0 THEN 0
    ELSE view_score(view, l - 1)
         + l * row_score(view[l - 1], Cardinality(DOMAIN view[l - 1]))

argmax(view) == view_score(view, num_layers) % vocab_size

\* A score is a finite number, NaN or an infinity
Num(x) == <<"num", x>>

NaN == <<"nan", 0>>

Inf == <<"inf", 1>>

NegInf == <<"inf", 0 - 1>>

isnan(x) == x[1] = "nan"

isinf(x) == x[1] = "inf"

\* lm_head computes in float16 (line 763): a sum that reaches the largest
\* float16 comes out as an infinity
overflows(view) == view_score(view, num_layers) >= float16_max

\* line 1082: the scores of the last position, one vector per row; the top
\* score is the token the fixed weights favour
lm_head(view) ==
    [b \in DOMAIN view |->
        [t \in Vocab |-> IF t # argmax(view[b]) THEN Num(0)
                         ELSE IF overflows(view[b]) THEN Inf ELSE Num(1)]]

\* a processor that looks for NaN only
InvalidScoreLogitsProcessor_nan_only(scores) ==
    IF \E b \in DOMAIN scores : \E t \in Vocab : isnan(scores[b][t])
    THEN [b \in DOMAIN scores |->
             [t \in Vocab |-> IF t = fallback_token_id THEN Num(fallback_score) ELSE Num(0)]]
    ELSE scores

\* InvalidScoreLogitsProcessor.__call__ (lines 91-95): a NaN or an infinity
\* anywhere in the scores replaces all of them
InvalidScoreLogitsProcessor(scores) ==
    IF \E b \in DOMAIN scores : \E t \in Vocab : isnan(scores[b][t]) \/ isinf(scores[b][t])
    THEN [b \in DOMAIN scores |->
             [t \in Vocab |-> IF t = fallback_token_id THEN Num(fallback_score) ELSE Num(0)]]
    ELSE scores

\* line 1085, the list _get_logits_processor returns: the generation config
\* adds no processor of its own, the caller's processors run in the order
\* of the list
RECURSIVE logits_processor(_, _, _)
logits_processor(list, ids, scores) ==
    IF list = <<>> THEN scores
    ELSE logits_processor(Tail(list), ids,
                          IF Head(list) = "InvalidScoreLogitsProcessor"
                          THEN InvalidScoreLogitsProcessor(scores)
                          ELSE scores)

\* a warper that flattens the scores
logits_warper_flat(ids, scores) == [b \in DOMAIN scores |-> [t \in Vocab |-> Num(0)]]

\* line 1086, the list _get_logits_warper returns: the generation config sets
\* no temperature, top_k or top_p, the list is empty
logits_warper(ids, scores) == scores

degenerate(v) == \E t \in Vocab : isnan(v[t]) \/ isinf(v[t])

max_score(v) == CHOOSE m \in {v[t][2] : t \in Vocab} : \A t \in Vocab : v[t][2] <= m

\* ops.softmax (line 1089): a score fallback_score below the top one has
\* probability exp(-5e4), which is 0 in floating point
softmax_support(v) == {t \in Vocab : max_score(v) - v[t][2] < fallback_score}

\* ops.argmax (line 1093): the first index of the largest probability
ops_argmax(v) ==
    CHOOSE t \in Vocab : /\ v[t][2] = max_score(v)
                         /\ \A u \in Vocab : v[u][2] = max_score(v) => t <= u

\* lines 1089-1093.  ops.multinomial draws a token of non-zero probability,
\* ops.argmax takes the top one; with a NaN or an infinity in the scores the
\* probabilities are NaN and what either returns is not defined
next_tokens_of(g, scores) ==
    {next_tokens \in [DOMAIN scores -> Vocab] :
        \A b \in DOMAIN scores :
            \/ degenerate(scores[b])
            \/ g.do_sample /\ next_tokens[b] \in softmax_support(scores[b])
            \/ ~g.do_sample /\ next_tokens[b] = ops_argmax(scores[b])}

\* line 1096: ops.concat([input_ids, next_tokens[:, None]], axis=-1)
\* a concat that puts the token in front
append_tokens_in_front(ids, next_tokens) ==
    [b \in Batch |-> <<next_tokens[b]>> \o ids[b]]

\* a concat that appends the token twice
append_tokens_twice(ids, next_tokens) ==
    [b \in Batch |-> Append(Append(ids[b], next_tokens[b]), next_tokens[b])]

append_tokens(ids, next_tokens) ==
    [b \in Batch |-> Append(ids[b], next_tokens[b])]

\* line 1097: start_pos = input_ids.shape[-1], taken after the concat
next_start_pos(new_ids) == Len(new_ids[1])

\* an update that forgets the flag of the steps before
update_unfinished_without_mul(unfinished, next_tokens, eos_token_id) ==
    [b \in Batch |-> eos_sum(next_tokens[b], eos_token_id)]

\* line 1101
update_unfinished(unfinished, next_tokens, eos_token_id) ==
    [b \in Batch |-> unfinished[b] * eos_sum(next_tokens[b], eos_token_id)]

\* a loop that leaves on end-of-sequence only
loop_exit_on_eos_only(unfinished, new_ids, max_length) ==
    \A b \in Batch : unfinished[b] = 0

\* line 1104: unfinished_sequences.max() == 0 or stopping_criteria(...)
loop_exit(unfinished, new_ids, max_length) ==
    (\A b \in Batch : unfinished[b] = 0) \/ stopping_criteria(new_ids, max_length)

\* lines 1104-1106: break comes before yield
yield_of(stop, seqs, new_ids) == IF stop THEN seqs ELSE Append(seqs, new_ids)

(* ------------------------------------------------------------------ *)
(* Decoder layers (GLMBlock, ChatGLMModel.__init__)                    *)
(* ------------------------------------------------------------------ *)
\* the default of the num_layers parameter of GLMBlock.__init__ (line 452)
GLMBlock_num_layers == 28

\* GLMBlock.__init__: what a block keeps of its arguments
GLMBlock(hidden_size, num_attention_heads, layer_id, inner_hidden_size, position_encoding_2d, n_layers) ==
    [layer_id |-> layer_id,
     hidden_size |-> hidden_size,
     num_attention_heads |-> num_attention_heads,
     inner_hidden_size |-> inner_hidden_size,
     position_encoding_2d |-> position_encoding_2d,
     num_layers |-> n_layers]

\* get_layer (lines 637-649): num_layers is not among the arguments it
\* passes, the block takes the default of the parameter
get_layer(config, layer_id) ==
    GLMBlock(config.hidden_size, config.num_attention_heads, layer_id,
             config.inner_hidden_size, config.position_encoding_2d,
             GLMBlock_num_layers)

\* lines 651-653: one block per configured layer
build_layers(config) ==
    [layer_id \in 0 .. (config.num_layers - 1) |-> get_layer(config, layer_id)]

\* line 526: alpha = (2 * self.num_layers) ** 0.5, squared
alpha_squared(block) == 2 * block.num_layers

\* the configuration of the model the sessions run on
ModelConfig ==
    [num_layers |-> num_layers, hidden_size |-> 4, num_attention_heads |-> 1,
     inner_hidden_size |-> None, position_encoding_2d |-> TRUE]

(* ------------------------------------------------------------------ *)
(* The calls the model is driven with                                  *)
(* ------------------------------------------------------------------ *)
causal(L) == [i \in 0 .. (L - 1) |-> [j \in 0 .. (L - 1) |-> j > i]]

\* a prompt as the tokenizer builds it (gMASK, bos), one with a token before
\* them, one without bos, and a one-token prompt that comes with its own
\* attention mask and position ids
Calls ==
    {[input_ids |-> [b \in Batch |-> p], attention_mask |-> <<>>, position_ids |-> <<>>] :
        p \in {<<gmask_token_id, bos_token_id>>,
               <<3, gmask_token_id, bos_token_id>>,
               <<mask_token_id, 3>>}}
    \cup
    {[input_ids |-> [b \in Batch |-> <<mask_token_id>>],
      attention_mask |-> << [b \in Batch |-> causal(1)] >>,
      position_ids |-> << [b \in Batch |-> << <<0, 0>> >>] >>]}

GenerationConfigs ==
    [max_length : 2 .. MaxLength,
     max_new_tokens : {None, 1},
     eos_token_id : {<<3>>, <<3, 0>>},
     do_sample : BOOLEAN,
     bucket_size : {2, 3},
     logits_processor : {<<>>, <<"InvalidScoreLogitsProcessor">>}]

Idle == [b \in Batch |-> <<>>]

\* the model as SelfAttention.__init__ leaves it: every buffer zero
Constructed(g, sc) ==
    /\ sched = sc
    /\ cache_k = [l \in Layers |-> zeros_like]
    /\ cache_v = [l \in Layers |-> zeros_like]
    /\ layers = build_layers(ModelConfig)
    /\ gen = g

\* no generator has run anything
NothingRun ==
    /\ input_ids = [s \in Sessions |-> Idle]
    /\ model_kwargs = [s \in Sessions |-> <<>>]
    /\ unfinished_sequences = [s \in Sessions |-> [b \in Batch |-> 1]]
    /\ yielded = [s \in Sessions |-> <<>>]
    /\ fwd = [s \in Sessions |-> <<>>]

Fresh(g, sc) ==
    /\ Constructed(g, sc)
    /\ pc = [s \in Sessions |-> "idle"]
    /\ call = [s \in Sessions |-> <<>>]
    /\ NothingRun
    /\ scored = [s \in Sessions |-> <<>>]

\* one call on a freshly constructed model
Init == \E g \in GenerationConfigs : Fresh(g, [sessions |-> 1, interleave |-> FALSE, max_batch_size |-> max_batch_size, pre_seq_len |-> None])

Running(s) == pc[s] \in {"PRIMED", "STEPPING"}

\* stream_generate(input_ids, **kwargs) is called: the generator exists and
\* has run nothing yet (lines 1013-1071 run on the first pump and read only
\* the arguments)
StartSession(s, c) ==
    /\ pc[s] = "idle"
    /\ s <= sched.sessions
    /\ \A t \in Sessions : t < s => pc[t] # "idle"
    /\ sched.interleave \/ \A t \in Sessions : ~Running(t)
    /\ pc' = [pc EXCEPT ![s] = "PRIMED"]
    /\ call' = [call EXCEPT ![s] = c]
    /\ input_ids' = [input_ids EXCEPT ![s] = c.input_ids]
    /\ model_kwargs' = [model_kwargs EXCEPT ![s] =
            [start_pos |-> None, attention_mask |-> c.attention_mask,
             position_ids |-> c.position_ids]]
    /\ unfinished_sequences' = [unfinished_sequences EXCEPT ![s] = [b \in Batch |-> 1]]
    /\ UNCHANGED <<cache_k, cache_v, gen, sched, layers, yielded, fwd, scored>>

owner_of(x) == x.owner

\* the record kept of a forward pass of session s: its arguments, and whose
\* slots it attended to (seen) and whose slots it overwrote (clobbered)
pass_of(s, mi, out) ==
    [seq_len |-> Len(mi.input_ids[1]), first_idx |-> mi.first_idx,
     tokens |-> mi.input_ids,
     start_pos |-> mi.start_pos, bucket_size |-> mi.bucket_size,
     position_ids |-> mi.position_ids,
     error |-> out.error, mask |-> out.mask,
     running |-> {t \in Sessions \ {s} : Running(t)},
     seen |-> IF out.error THEN {}
              ELSE UNION {{<<j, owner_of(out.view[b][l][j][1])>> :
                             j \in {i \in DOMAIN out.view[b][l] : out.view[b][l][i] # <<>>}} :
                          b \in Batch, l \in Layers},
     clobbered |-> UNION {{owner_of(cache_k[l][j][b]) :
                             j \in {i \in Slots : out.cache_k[l][i][b] # cache_k[l][i][b]
                                                  \/ out.cache_v[l][i][b] # cache_v[l][i][b]}} :
                          b \in Batch, l \in Layers}]

\* one pump of the generator: one iteration of the loop of lines 1073-1106
Step(s) ==
    /\ Running(s)
    /\ LET ids == input_ids[s]
           kw == model_kwargs[s]
           max_length == max_length_of(gen, Len(call[s].input_ids[1]))
       IN \E mi \in {prepare_inputs_for_generation(ids, kw, gen.bucket_size)} :
          IF mi.error
          THEN /\ pc' = [pc EXCEPT ![s] = "FATAL"]
               /\ UNCHANGED <<cache_k, cache_v, input_ids, model_kwargs,
                              unfinished_sequences, yielded, fwd, scored>>
          ELSE \E out \in {construct(s, cache_k, cache_v, mi.input_ids, mi.first_idx,
                                     mi.position_ids, mi.attention_mask,
                                     mi.start_pos, mi.bucket_size, o) :
                               o \in scatter_outcomes(Len(mi.input_ids[1]), mi.start_pos)} :
               /\ cache_k' = out.cache_k
               /\ cache_v' = out.cache_v
               /\ fwd' = [fwd EXCEPT ![s] = Append(@, pass_of(s, mi, out))]
               /\ IF out.error
                  THEN /\ pc' = [pc EXCEPT ![s] = "FATAL"]
                       /\ UNCHANGED <<input_ids, model_kwargs,
                                      unfinished_sequences, yielded, scored>>
                  ELSE \E next_token_logits \in {lm_head(out.view)} :
                       \E next_token_scores \in
                            {logits_warper(ids, logits_processor(gen.logits_processor,
                                                                 ids, next_token_logits))} :
                       \E next_tokens \in next_tokens_of(gen, next_token_scores) :
                       LET new_ids == append_tokens(ids, next_tokens)
                           start_pos == next_start_pos(new_ids)
                           unfinished == update_unfinished(unfinished_sequences[s],
                                                           next_tokens, gen.eos_token_id)
                           stop == loop_exit(unfinished, new_ids, max_length)
                       IN /\ input_ids' = [input_ids EXCEPT ![s] = new_ids]
                          /\ model_kwargs' = [model_kwargs EXCEPT ![s] =
                                 update_model_kwargs_for_generation(start_pos, kw)]
                          /\ unfinished_sequences' =
                                 [unfinished_sequences EXCEPT ![s] = unfinished]
                          /\ pc' = [pc EXCEPT ![s] = IF stop THEN "DONE" ELSE "STEPPING"]
                          /\ yielded' = [yielded EXCEPT ![s] = yield_of(stop, @, new_ids)]
                          /\ scored' = [scored EXCEPT ![s] = Append(@,
                                 [input_ids |-> ids,
                                  logits |-> next_token_logits,
                                  scores |-> next_token_scores,
                                  next_tokens |-> next_tokens])]
    /\ UNCHANGED <<gen, sched, layers, call>>

\* the consumer stops iterating: nothing of the program runs
Drop(s) ==
    /\ Running(s)
    /\ pc' = [pc EXCEPT ![s] = "DROPPED"]
    /\ UNCHANGED <<cache_k, cache_v, gen, sched, layers, call, input_ids, model_kwargs,
                   unfinished_sequences, yielded, fwd, scored>>

Next ==
    \/ \E s \in Sessions, c \in Calls : StartSession(s, c)
    \/ \E s \in Sessions : Step(s)
    \/ \E s \in Sessions : Drop(s)

Spec == Init /\ [][Next]_vars

\* the consumer keeps pumping: a generator that can step does step
FairSpec == Spec /\ \A s \in Sessions : WF_vars(Step(s))

Greedy == {g \in GenerationConfigs : ~g.do_sample}

\* two calls on one model, the second made once the generator of the first
\* has ended or was dropped
InitSeq == \E g \in Greedy : Fresh(g, [sessions |-> 2, interleave |-> FALSE, max_batch_size |-> max_batch_size, pre_seq_len |-> None])

SpecSeq == InitSeq /\ [][Next]_vars

\* two calls on one model whose generators the caller pumps alternately
InitShared == \E g \in Greedy : Fresh(g, [sessions |-> 2, interleave |-> TRUE, max_batch_size |-> max_batch_size, pre_seq_len |-> None])

SpecShared == InitShared /\ [][Next]_vars

\* one sampling call with a batch of two rows, on a model whose
\* config.max_batch_size is two
InitBatch ==
    \E g \in {c \in GenerationConfigs :
                c.do_sample /\ c.max_new_tokens = None /\ c.max_length < MaxLength} :
        Fresh(g, [sessions |-> 1, interleave |-> FALSE, max_batch_size |-> max_batch_size + 1, pre_seq_len |-> None])

SpecBatch == InitBatch /\ [][Next]_vars

\* calls whose attention mask is the one get_masks computes for the prompt
MaskedCalls ==
    {[input_ids |-> [b \in Batch |-> p],
      attention_mask |-> << get_masks([b \in Batch |-> p]) >>,
      position_ids |-> <<>>] :
        p \in {<<gmask_token_id, bos_token_id>>,
               <<3, gmask_token_id, bos_token_id>>,
               <<gmask_token_id, bos_token_id, 3>>}}

NextMasked ==
    \/ \E s \in Sessions, c \in MaskedCalls : StartSession(s, c)
    \/ \E s \in Sessions : Step(s)
    \/ \E s \in Sessions : Drop(s)

SpecMasked == Init /\ [][NextMasked]_vars

\* lines 825-828: the position of the mask token in every row
mask_positions_of(ids) == [b \in DOMAIN ids |-> IndexOf(ids[b], mask_token(ids[b]))]

\* calls with and without position ids; the ones that come with the call are
\* the ones get_position_ids computes for the prompt
PositionCalls ==
    {[input_ids |-> [b \in Batch |-> p],
      attention_mask |-> <<>>,
      position_ids |-> IF supplied
                       THEN << get_position_ids([b \in Batch |-> p],
                                                mask_positions_of([b \in Batch |-> p])) >>
                       ELSE <<>>] :
        p \in {<<gmask_token_id, bos_token_id>>,
               <<3, gmask_token_id, bos_token_id>>,
               <<mask_token_id, bos_token_id>>},
        supplied \in BOOLEAN}

NextPositions ==
    \/ \E s \in Sessions, c \in PositionCalls : StartSession(s, c)
    \/ \E s \in Sessions : Step(s)
    \/ \E s \in Sessions : Drop(s)

SpecPositions == Init /\ [][NextPositions]_vars

MaxPrefix == 2

\* one call on a model built with or without a soft-prompt prefix
\* (config.pre_seq_len, line 627)
InitPrefix ==
    \E g \in GenerationConfigs, n \in {None} \cup (1 .. MaxPrefix) :
        Fresh(g, [sessions |-> 1, interleave |-> FALSE,
                  max_batch_size |-> max_batch_size, pre_seq_len |-> n])

SpecPrefix == InitPrefix /\ [][Next]_vars

(* ------------------------------------------------------------------ *)
(* InvalidScoreLogitsProcessor called on its own                       *)
(* ------------------------------------------------------------------ *)
AnyConfig == CHOOSE g \in GenerationConfigs : TRUE

ScoreValues == {Num(0), Num(3), NaN, Inf, NegInf}

\* a caller holds a score vector
InitScores ==
    \E v \in [Vocab -> ScoreValues] :
        /\ Constructed(AnyConfig, [sessions |-> 1, interleave |-> FALSE,
                                   max_batch_size |-> max_batch_size, pre_seq_len |-> None])
        /\ pc = [s \in Sessions |-> IF s = 1 THEN "SCORING" ELSE "idle"]
        /\ call = [s \in Sessions |-> IF s = 1 THEN [scores |-> [b \in Batch |-> v]] ELSE <<>>]
        /\ NothingRun
        /\ scored = [s \in Sessions |-> <<>>]

\* InvalidScoreLogitsProcessor()(input_ids, scores)
ProcessScores(s) ==
    /\ pc[s] = "SCORING"
    /\ pc' = [pc EXCEPT ![s] = "SCORED"]
    /\ scored' = [scored EXCEPT ![s] = Append(@,
           [logits |-> call[s].scores,
            scores |-> InvalidScoreLogitsProcessor(call[s].scores),
            next_tokens |-> <<>>])]
    /\ UNCHANGED <<cache_k, cache_v, gen, sched, layers, call, input_ids, model_kwargs,
                   unfinished_sequences, yielded, fwd>>

NextScores == \E s \in Sessions : ProcessScores(s)

SpecScores == InitScores /\ [][NextScores]_vars

\* score vectors with one entry that stands out
ScoreRows == {[t \in Vocab |-> IF t = u THEN x ELSE Num(0)] : u \in Vocab, x \in ScoreValues}

\* a caller holds the scores of a batch of two rows
InitScoresBatch ==
    \E v \in ScoreRows, w \in ScoreRows :
        /\ Constructed(AnyConfig, [sessions |-> 1, interleave |-> FALSE,
                                   max_batch_size |-> max_batch_size + 1, pre_seq_len |-> None])
        /\ pc = [s \in Sessions |-> IF s = 1 THEN "SCORING" ELSE "idle"]
        /\ call = [s \in Sessions |-> IF s = 1 THEN [scores |-> <<v, w>>] ELSE <<>>]
        /\ NothingRun
        /\ scored = [s \in Sessions |-> <<>>]

SpecScoresBatch == InitScoresBatch /\ [][NextScores]_vars

(* ------------------------------------------------------------------ *)
(* ChatGLMModel.construct called on its own                            *)
(* ------------------------------------------------------------------ *)
\* a check that lets every call through
inputs_error_never(ids, inputs_embeds) == FALSE

\* lines 696-703: both of input_ids and inputs_embeds, or neither
inputs_error(ids, inputs_embeds) ==
    \/ ids # <<>> /\ inputs_embeds # <<>>
    \/ ids = <<>> /\ inputs_embeds = <<>>

\* ChatGLMModel.construct from its first line.  A call with inputs_embeds
\* only passes the check and fails at self.word_embeddings(input_ids)
\* (line 705), before any layer runs
model_forward(s, ck, cv, a, out_of_range) ==
    IF inputs_error(a.input_ids, a.inputs_embeds) \/ a.input_ids = <<>>
    THEN [cache_k |-> ck, cache_v |-> cv, error |-> TRUE, mask |-> <<>>, view |-> <<>>]
    ELSE construct(s, ck, cv, a.input_ids[1], a.first_idx, a.position_ids,
                   a.attention_mask, a.start_pos, a.bucket_size, out_of_range)

\* the arguments of the direct calls: one token, two tokens, and one token
\* more than the cache holds; start positions inside and beyond the cache;
\* buckets within and beyond it
ForwardCalls ==
    {[input_ids |-> IF n = 0 THEN <<>> ELSE << [b \in Batch |-> [i \in 1 .. n |-> 3]] >>,
      inputs_embeds |-> e,
      first_idx |-> IF n = 1 THEN p ELSE 0,
      position_ids |-> [b \in Batch |-> [i \in 1 .. n |-> <<(IF n = 1 THEN p ELSE 0) + i - 1, 0>>]],
      attention_mask |-> [b \in Batch |-> causal(n)],
      start_pos |-> p,
      bucket_size |-> k] :
        n \in {0, 1, 2, max_sequence_length + 1},
        e \in {<<>>, <<"inputs_embeds">>},
        p \in {0, max_sequence_length - 1, max_sequence_length},
        k \in {2, max_sequence_length, max_sequence_length + 1}}

\* model(input_ids, position_ids, attention_mask, start_pos, bucket_size,
\* inputs_embeds) by a caller of its own; fwd keeps the last pass only
Forward(s, a) ==
    /\ s <= sched.sessions
    /\ \E out \in {model_forward(s, cache_k, cache_v, a, o) :
                     o \in IF a.input_ids = <<>> THEN {"in_range"}
                           ELSE scatter_outcomes(Len(a.input_ids[1][1]), a.start_pos)} :
        /\ cache_k' = out.cache_k
        /\ cache_v' = out.cache_v
        /\ pc' = [pc EXCEPT ![s] = IF out.error THEN "FATAL" ELSE "RETURNED"]
        /\ fwd' = [fwd EXCEPT ![s] =
               IF a.input_ids = <<>> THEN <<>>
               ELSE << pass_of(s, [input_ids |-> a.input_ids[1], first_idx |-> a.first_idx,
                                   start_pos |-> a.start_pos,
                                   position_ids |-> a.position_ids,
                                   bucket_size |-> a.bucket_size], out) >>]
    /\ call' = [call EXCEPT ![s] = a]
    /\ UNCHANGED <<gen, sched, layers, input_ids, model_kwargs, unfinished_sequences,
                   yielded, scored>>

NextForward == \E s \in Sessions : \E a \in ForwardCalls : Forward(s, a)

InitForward ==
    Fresh(AnyConfig, [sessions |-> 1, interleave |-> FALSE, max_batch_size |-> max_batch_size, pre_seq_len |-> None])

SpecForward == InitForward /\ [][NextForward]_vars

(* ------------------------------------------------------------------ *)
(* ChatGLMModel(config): the construction of the decoder stack         *)
(* ------------------------------------------------------------------ *)
MaxLayers == 4

ModelConfigs ==
    [num_layers : 1 .. MaxLayers, hidden_size : {4, 8}, num_attention_heads : {1, 2},
     inner_hidden_size : {None, 16}, position_encoding_2d : BOOLEAN]

\* a caller holds a configuration, no model exists yet
InitBlocks ==
    \E c \in ModelConfigs :
        /\ sched = [sessions |-> 1, interleave |-> FALSE, max_batch_size |-> max_batch_size, pre_seq_len |-> None]
        /\ cache_k = <<>>
        /\ cache_v = <<>>
        /\ layers = <<>>
        /\ gen = AnyConfig
        /\ pc = [s \in Sessions |-> IF s = 1 THEN "CONFIGURED" ELSE "idle"]
        /\ call = [s \in Sessions |-> IF s = 1 THEN [config |-> c] ELSE <<>>]
        /\ NothingRun
        /\ scored = [s \in Sessions |-> <<>>]

\* ChatGLMModel(config): the blocks are built, each with its zeroed cache
BuildModel(s) ==
    /\ pc[s] = "CONFIGURED"
    /\ pc' = [pc EXCEPT ![s] = "BUILT"]
    /\ layers' = build_layers(call[s].config)
    /\ cache_k' = [l \in DOMAIN layers' |-> zeros_like]
    /\ cache_v' = [l \in DOMAIN layers' |-> zeros_like]
    /\ UNCHANGED <<gen, sched, call, input_ids, model_kwargs, unfinished_sequences,
                   yielded, fwd, scored>>

NextBlocks == \E s \in Sessions : BuildModel(s)

SpecBlocks == InitBlocks /\ [][NextBlocks]_vars

(* ------------------------------------------------------------------ *)
(* prepare_inputs_for_generation called on its own                     *)
(* ------------------------------------------------------------------ *)
MaxSeqLength == 8

MaxBucket == 6

\* a sequence of n tokens as the tokenizer starts it: gMASK, bos, then text
sequence_of(n) ==
    [i \in 1 .. n |-> IF i = 1 THEN gmask_token_id ELSE IF i = 2 THEN bos_token_id ELSE 3]

\* the arguments of the direct calls: a sequence of every length, start_pos
\* absent or set, every granularity; the sequence of one token has no bos
\* and comes with its mask and position ids
PrepareCalls ==
    {[input_ids |-> [b \in Batch |-> sequence_of(n)],
      attention_mask |-> IF n = 1 THEN << [b \in Batch |-> causal(1)] >> ELSE <<>>,
      position_ids |-> IF n = 1 THEN << [b \in Batch |-> << <<0, 0>> >>] >> ELSE <<>>,
      start_pos |-> IF decode THEN n ELSE None,
      bucket_size |-> g] :
        n \in 1 .. MaxSeqLength, decode \in BOOLEAN, g \in 1 .. MaxBucket}

InitPrepare ==
    /\ Constructed(AnyConfig, [sessions |-> 1, interleave |-> FALSE,
                               max_batch_size |-> max_batch_size, pre_seq_len |-> None])
    /\ \E a \in PrepareCalls :
           call = [s \in Sessions |-> IF s = 1 THEN a ELSE <<>>]
    /\ pc = [s \in Sessions |-> IF s = 1 THEN "PREPARING" ELSE "idle"]
    /\ NothingRun
    /\ scored = [s \in Sessions |-> <<>>]

\* model.prepare_inputs_for_generation(input_ids, attention_mask,
\* position_ids, start_pos, bucket_size); model_kwargs keeps what it returns
Prepare(s) ==
    /\ pc[s] = "PREPARING"
    /\ pc' = [pc EXCEPT ![s] = "PREPARED"]
    /\ model_kwargs' = [model_kwargs EXCEPT ![s] =
           prepare_inputs_for_generation(call[s].input_ids,
               [start_pos |-> call[s].start_pos,
                attention_mask |-> call[s].attention_mask,
                position_ids |-> call[s].position_ids], call[s].bucket_size)]
    /\ UNCHANGED <<cache_k, cache_v, gen, sched, layers, call, input_ids,
                   unfinished_sequences, yielded, fwd, scored>>

NextPrepare == \E s \in Sessions : Prepare(s)

SpecPrepare == InitPrepare /\ [][NextPrepare]_vars

(* ------------------------------------------------------------------ *)
(* Properties                                                          *)
(* ------------------------------------------------------------------ *)
PromptLen(s) == Len(call[s].input_ids[1])

MaxLen(s) == max_length_of(gen, PromptLen(s))

\* every pump of session s so far ran its forward pass and appended a token
Stepped(s) == pc[s] \in {"STEPPING", "DONE"}

Generated(s, b) == {input_ids[s][b][n] : n \in (PromptLen(s) + 1) .. Len(input_ids[s][b])}

EosIds == {gen.eos_token_id[n] : n \in 1 .. Len(gen.eos_token_id)}

\* C1: after the prefill of a prompt of length L and k decode steps, slot i of
\* every layer's key and value cache holds the key/value of the token at
\* sequence index i, for every i in [0, L+k)
C1_CachePrefix ==
    \A s \in Sessions : Stepped(s) =>
        \A l \in Layers, b \in Batch, i \in 0 .. (PromptLen(s) + Len(fwd[s]) - 2) :
            i \in Slots =>
                /\ cache_k[l][i][b].owner = s
                /\ cache_k[l][i][b].idx = i
                /\ cache_k[l][i][b].tok = input_ids[s][b][i + 1]
                /\ cache_v[l][i][b].owner = s
                /\ cache_v[l][i][b].idx = i
                /\ cache_v[l][i][b].tok = input_ids[s][b][i + 1]

\* C2: greedy decoding, a prompt shorter than max_length and no generated
\* token equal to an end-of-sequence id: when the driver is DONE it has
\* yielded max_length - prompt_length sequences, the last of length max_length
C2_EmitsEveryToken ==
    \A s \in Sessions :
        (/\ pc[s] = "DONE"
         /\ ~gen.do_sample
         /\ PromptLen(s) < MaxLen(s)
         /\ \A b \in Batch : Generated(s, b) \cap EosIds = {})
        => /\ Len(yielded[s]) = MaxLen(s) - PromptLen(s)
           /\ \A b \in Batch : Len(yielded[s][Len(yielded[s])][b]) = MaxLen(s)

\* C3: whatever the list of end-of-sequence ids, the unfinished flag of a
\* batch row is 0 after the step whose new token is one of the ids
C3_EosFinishes ==
    \A s \in Sessions, b \in Batch :
        (Stepped(s) /\ input_ids[s][b][Len(input_ids[s][b])] \in EosIds)
        => unfinished_sequences[s][b] = 0

\* C4: the start_pos kept after the prefill of a prompt of length L, and
\* passed to the first decode step, is L; each decode step adds one
C4_StartPosIsPromptLength ==
    \A s \in Sessions : Stepped(s) =>
        /\ model_kwargs[s].start_pos = PromptLen(s) + Len(fwd[s]) - 1
        /\ \A n \in 2 .. Len(fwd[s]) : fwd[s][n].start_pos = PromptLen(s) + n - 2

\* C5: every slot the synthesized mask of a decode step leaves visible was
\* written by the session of that step
C5_MaskHidesUnwritten ==
    \A s \in Sessions : \A n \in 2 .. Len(fwd[s]) :
        (fwd[s][n].seq_len = 1 /\ ~fwd[s][n].error)
        => \A p \in fwd[s][n].seen : p[2] = s

\* C6: every step that ran a forward pass and appended a token yielded the
\* sequence that holds the token
C6_YieldPerStep ==
    \A s \in Sessions : Stepped(s) =>
        /\ Len(yielded[s]) = Len(fwd[s])
        /\ yielded[s][Len(yielded[s])] = input_ids[s]

\* the prompt of session s passes prepare_inputs_for_generation, and every
\* bucket the session can ask for before it reaches max_length fits the cache
Fits(s) ==
    /\ ~prepare_inputs_for_generation(call[s].input_ids,
            [start_pos |-> None, attention_mask |-> call[s].attention_mask,
             position_ids |-> call[s].position_ids], gen.bucket_size).error
    /\ \A n \in PromptLen(s) .. Max(PromptLen(s), MaxLen(s) - 1) :
            bucket_of(n, gen.bucket_size) <= max_sequence_length

C8_NeverLongerThanMaxLength ==
    \A s \in Sessions, b \in Batch : pc[s] # "idle" => Len(input_ids[s][b]) <= MaxLen(s)

\* C8, amended: the running sequence is never longer than max_length when
\* the prompt is shorter than max_length; a prompt of length max_length or
\* more still gets one token appended, and only one
C8_LengthBound ==
    \A s \in Sessions, b \in Batch :
        pc[s] # "idle" => Len(input_ids[s][b]) <= Max(MaxLen(s), PromptLen(s) + 1)

\* a prompt longer than max_length that got its one token and stopped, and a
\* shorter one that stopped at max_length exactly
C8_Witness ==
    \E s \in Sessions :
        /\ pc[s] = "DONE"
        /\ PromptLen(s) > MaxLen(s)
        /\ Len(input_ids[s][1]) = PromptLen(s) + 1

\* C9: no forward pass of a session attends to, or overwrites, a cache slot
\* written by another session that is still running
C9_SessionsIsolated ==
    \A s \in Sessions : \A n \in 1 .. Len(fwd[s]) :
        \A t \in fwd[s][n].running :
            /\ \A p \in fwd[s][n].seen : p[2] # t
            /\ t \notin fwd[s][n].clobbered

\* C10: two greedy sessions with the same call, run one after the other on
\* one model, yield the same sequences and end alike (as long as the scores
\* of every step are finite, so that the top token is defined)
C10_Deterministic ==
    (/\ ~gen.do_sample
     /\ \A s \in Sessions : \A n \in 1 .. Len(scored[s]) :
            \A b \in Batch : ~degenerate(scored[s][n].logits[b])
     /\ pc[1] # "idle" /\ pc[2] # "idle"
     /\ call[1] = call[2])
    => /\ \A n \in 1 .. Min(Len(yielded[1]), Len(yielded[2])) :
              yielded[1][n] = yielded[2][n]
       /\ (pc[1] = "DONE" /\ pc[2] \in {"DONE", "FATAL"})
              => (pc[2] = "DONE" /\ yielded[2] = yielded[1] /\ input_ids[2] = input_ids[1])

\* C11: after the first forward pass of a session, every cache slot the pass
\* did not write is zero, whatever an earlier session left in the cache
C11_FirstPassResets ==
    \A s \in Sessions :
        (/\ Len(fwd[s]) = 1
         /\ ~fwd[s][1].error
         /\ fwd[s][1].start_pos = 0
         /\ \A t \in Sessions : t > s => pc[t] = "idle")
        => \A l \in Layers, b \in Batch, j \in Slots :
               j >= PromptLen(s) => (cache_k[l][j][b] = Zero /\ cache_v[l][j][b] = Zero)

\* C12: in every step of a stream_generate session, whatever processors the
\* caller handed in, scores with a NaN or an infinity do not reach softmax:
\* the scores the tokens are selected from contain neither
C12_DegenerateScoresReplaced ==
    \A s \in Sessions : \A n \in 1 .. Len(scored[s]) : \A b \in Batch :
        degenerate(scored[s][n].logits[b]) => ~degenerate(scored[s][n].scores[b])

\* C13: InvalidScoreLogitsProcessor turns a score vector with a NaN or an
\* infinity into one without, whose only non-zero entry is the fallback
\* token, so that softmax puts all the mass there; it returns a vector with
\* neither unchanged
C13_FallbackSubstitution ==
    \A s \in Sessions : pc[s] = "SCORED" =>
        \A b \in Batch :
            LET v == scored[s][1].logits[b]
                w == scored[s][1].scores[b]
            IN IF degenerate(v)
               THEN /\ ~degenerate(w)
                    /\ \A t \in Vocab : w[t] # Num(0) <=> t = fallback_token_id
                    /\ softmax_support(w) = {fallback_token_id}
               ELSE w = v

\* a vector with an infinity and no NaN went through the processor
C13_Witness ==
    \E s \in Sessions :
        /\ pc[s] = "SCORED"
        /\ \E t \in Vocab : isinf(scored[s][1].logits[1][t])
        /\ \A t \in Vocab : ~isnan(scored[s][1].logits[1][t])
        /\ scored[s][1].scores[1][fallback_token_id] = Num(fallback_score)

\* the cache write of a direct call falls outside the buffers
WriteBeyondCapacity(a) ==
    /\ a.input_ids # <<>>
    /\ a.inputs_embeds = <<>>
    /\ scatter_outcomes(Len(a.input_ids[1][1]), a.start_pos) # {"in_range"}

\* C14: a forward call whose cache write falls outside the capacity of the
\* cache ends in a fatal error, it never returns as a normal call
C14_BeyondCapacityIsFatal ==
    \A s \in Sessions :
        (pc[s] \in {"RETURNED", "FATAL"} /\ WriteBeyondCapacity(call[s]))
        => pc[s] = "FATAL"

BothOrNeither(a) ==
    \/ a.input_ids # <<>> /\ a.inputs_embeds # <<>>
    \/ a.input_ids = <<>> /\ a.inputs_embeds = <<>>

\* C15: a forward call with both of token ids and embeddings, or neither,
\* fails and leaves the key and value cache of every layer as it was
C15_InputContract ==
    [][\A s \in Sessions :
          (pc'[s] \in {"RETURNED", "FATAL"} /\ BothOrNeither(call'[s]))
          => (pc'[s] = "FATAL" /\ cache_k' = cache_k /\ cache_v' = cache_v)]_vars

\* a call with both failed on a cache that earlier calls had written
C15_Witness ==
    \E s \in Sessions :
        /\ pc[s] = "FATAL"
        /\ call[s].input_ids # <<>> /\ call[s].inputs_embeds # <<>>
        /\ \E l \in Layers, j \in Slots, b \in Batch : cache_k[l][j][b] # Zero

\* C16: once a row of the batch is finished (its flag is 0) and the loop goes
\* on for another row, a step does not append the token it sampled for the
\* finished row to that row
C16_FinishedRowStops ==
    [][\A s \in Sessions : \A b \in Batch :
          (unfinished_sequences[s][b] = 0 /\ input_ids'[s] # input_ids[s])
          => input_ids'[s][b][Len(input_ids'[s][b])]
                 # scored'[s][Len(scored'[s])].next_tokens[b]]_vars

\* C17: the first forward pass of a session processes the whole prompt with
\* start_pos = 0; every later pass processes one token, the one the previous
\* step appended, with the start_pos the previous step stored; a step runs
\* one pass, and the cache changes in no other way
C17_OnePrefillThenDecode ==
    [][/\ \A s \in Sessions :
             fwd'[s] # fwd[s] =>
                 /\ Len(fwd'[s]) = Len(fwd[s]) + 1
                 /\ LET pass == fwd'[s][Len(fwd'[s])]
                    IN IF Len(fwd[s]) = 0
                       THEN /\ pass.tokens = call[s].input_ids
                            /\ pass.start_pos = 0
                       ELSE /\ pass.seq_len = 1
                            /\ \A b \in Batch :
                                   pass.tokens[b] = <<input_ids[s][b][Len(input_ids[s][b])]>>
                            /\ pass.start_pos = model_kwargs[s].start_pos
       /\ (cache_k' # cache_k \/ cache_v' # cache_v)
              => \E s \in Sessions : Len(fwd'[s]) = Len(fwd[s]) + 1]_vars

\* a prompt of two tokens or more, its prefill and a decode pass after it
C17_Witness ==
    \E s \in Sessions :
        /\ Len(fwd[s]) >= 2
        /\ PromptLen(s) >= 2
        /\ fwd[s][1].seq_len = PromptLen(s) /\ fwd[s][2].seq_len = 1
        /\ \A n \in 1 .. Len(fwd[s]) : ~fwd[s][n].error

IsPrefix(p, q) == Len(p) <= Len(q) /\ SubSeq(q, 1, Len(p)) = p

\* C18: every yielded sequence starts with the prompt, and each yielded
\* sequence is the one yielded before it with one token appended to every
\* row; the running sequence extends the last one yielded
C18_AppendOnly ==
    \A s \in Sessions : \A n \in 1 .. Len(yielded[s]) : \A b \in Batch :
        /\ IsPrefix(call[s].input_ids[b], yielded[s][n][b])
        /\ n > 1 => /\ IsPrefix(yielded[s][n - 1][b], yielded[s][n][b])
                    /\ Len(yielded[s][n][b]) = Len(yielded[s][n - 1][b]) + 1
        /\ IsPrefix(yielded[s][n][b], input_ids[s][b])

\* a session that has yielded twice
C18_Witness ==
    \E s \in Sessions : Len(yielded[s]) >= 2 /\ pc[s] = "DONE"

\* C19: in a decode step with start_pos = p and bucket size B the mask of
\* the layers is one row of width B that masks position j exactly when
\* j > p + 1, whatever mask came with the call
C19_DecodeMask ==
    \A s \in Sessions : \A n \in 1 .. Len(fwd[s]) :
        LET pass == fwd[s][n]
        IN pass.seq_len = 1 =>
               \A b \in Batch :
                   /\ DOMAIN pass.mask[b] = {0}
                   /\ DOMAIN pass.mask[b][0] = 0 .. (pass.bucket_size - 1)
                   /\ \A j \in 0 .. (pass.bucket_size - 1) :
                          pass.mask[b][0][j] <=> j > pass.start_pos + 1

\* a session that was handed a mask: one of its one-token passes masks a
\* position, and one runs at a start_pos of two or more
C19_Witness ==
    \E s \in Sessions :
        /\ pc[s] # "idle"
        /\ call[s].attention_mask # <<>>
        /\ \E n \in 1 .. Len(fwd[s]) :
               /\ fwd[s][n].seq_len = 1 /\ ~fwd[s][n].error
               /\ \E j \in 0 .. (fwd[s][n].bucket_size - 1) : fwd[s][n].mask[1][0][j]
        /\ \E n \in 1 .. Len(fwd[s]) :
               fwd[s][n].seq_len = 1 /\ fwd[s][n].start_pos >= 2 /\ ~fwd[s][n].error

\* C20: in a prefill of L > 1 tokens into a bucket of size B the mask of the
\* layers is B wide, is the supplied mask on the columns [0, L) and masks
\* every column of [L, B) in every row
C20_PrefillMask ==
    \A s \in Sessions : \A n \in 1 .. Len(fwd[s]) :
        LET pass == fwd[s][n]
            L == pass.seq_len
            supplied == IF call[s].attention_mask # <<>> THEN call[s].attention_mask[1]
                        ELSE get_masks(call[s].input_ids)
        IN (L > 1 /\ pass.mask # <<>>) =>
               \A b \in Batch : \A i \in 0 .. (L - 1) :
                   /\ DOMAIN pass.mask[b] = 0 .. (L - 1)
                   /\ DOMAIN pass.mask[b][i] = 0 .. (pass.bucket_size - 1)
                   /\ \A j \in 0 .. (L - 1) : pass.mask[b][i][j] = supplied[b][i][j]
                   /\ \A j \in L .. (pass.bucket_size - 1) : pass.mask[b][i][j]

\* a prefill of three tokens into a wider bucket that went through
C20_Witness ==
    \E s \in Sessions :
        /\ Len(fwd[s]) >= 1
        /\ fwd[s][1].seq_len >= 3
        /\ fwd[s][1].bucket_size > fwd[s][1].seq_len
        /\ ~fwd[s][1].error

\* C21: a call with one token and start position p changes slot p of the key
\* cache and of the value cache of a layer, where the call returns it holds
\* the token's key and value; every other slot of both buffers holds the
\* value it had before the call
C21_DecodeWritesOneSlot ==
    [][\A s \in Sessions :
          (fwd'[s] # <<>> /\ fwd'[s][1].seq_len = 1) =>
              LET pass == fwd'[s][1]
                  p == pass.start_pos
              IN \A l \in Layers, b \in Batch, j \in Slots :
                     /\ j # p => /\ cache_k'[l][j][b] = cache_k[l][j][b]
                                 /\ cache_v'[l][j][b] = cache_v[l][j][b]
                     /\ (j = p /\ pc'[s] = "RETURNED")
                            => /\ cache_k'[l][j][b] = Key(s, pass.first_idx, pass.tokens[b][1],
                                                          call'[s].position_ids[b][1])
                               /\ cache_v'[l][j][b] = Value(s, pass.first_idx, pass.tokens[b][1],
                                                            call'[s].position_ids[b][1])]_vars

\* a one-token call wrote the last slot of a cache whose first slots an
\* earlier call had filled
C21_Witness ==
    \E s \in Sessions :
        /\ pc[s] = "RETURNED"
        /\ fwd[s][1].seq_len = 1
        /\ fwd[s][1].start_pos = max_sequence_length - 1
        /\ \A l \in Layers, b \in Batch :
               /\ cache_k[l][max_sequence_length - 1][b].idx = max_sequence_length - 1
               /\ cache_k[l][0][b] # Zero /\ cache_k[l][0][b].idx = 0
               /\ cache_v[l][1][b] # Zero

\* C22: after a prefill of L > 1 tokens that the cache can hold and that ran
\* every layer, slot i of every layer's key and value cache holds the key/value of the i-th token of
\* the call for i in [0, L), and every slot of [L, max_sequence_length) is
\* zero, whatever an earlier session left in the cache
C22_PrefillResets ==
    \A s \in Sessions :
        (/\ Len(fwd[s]) = 1
         /\ fwd[s][1].seq_len > 1
         /\ fwd[s][1].seq_len <= max_sequence_length
         /\ ~fwd[s][1].error
         /\ \A t \in Sessions : t > s => pc[t] = "idle")
        => LET pass == fwd[s][1]
           IN \A l \in Layers, b \in Batch, j \in Slots :
                  IF j < pass.seq_len
                  THEN /\ cache_k[l][j][b].kind = "k" /\ cache_v[l][j][b].kind = "v"
                       /\ cache_k[l][j][b].owner = s /\ cache_v[l][j][b].owner = s
                       /\ cache_k[l][j][b].idx = j /\ cache_v[l][j][b].idx = j
                       /\ cache_k[l][j][b].tok = pass.tokens[b][j + 1]
                       /\ cache_v[l][j][b].tok = pass.tokens[b][j + 1]
                  ELSE cache_k[l][j][b] = Zero /\ cache_v[l][j][b] = Zero

\* the second session prefilled two tokens into a cache in which the first
\* session had written three slots
C22_Witness ==
    /\ Len(fwd[1]) >= 1
    /\ fwd[1][1].seq_len = 3
    /\ ~fwd[1][1].error
    /\ Len(fwd[2]) = 1
    /\ fwd[2][1].seq_len = 2
    /\ ~fwd[2][1].error

\* C23: in a model built from a configuration, the residual scale alpha of
\* every block satisfies alpha^2 = 2 * num_layers, num_layers being the
\* configured number of layers; it is the same in every block
C23_AlphaFromConfig ==
    \A s \in Sessions : pc[s] = "BUILT" =>
        \A l \in DOMAIN layers :
            /\ alpha_squared(layers[l]) = 2 * call[s].config.num_layers
            /\ alpha_squared(layers[l]) = alpha_squared(layers[0])

SmallestMultiple(n, g) ==
    CHOOSE m \in n .. (n + g) :
        /\ m % g = 0
        /\ \A k \in n .. (n + g) : k % g = 0 => m <= k

\* C25: for a sequence of n tokens and a granularity g the bucket size that
\* prepare_inputs_for_generation returns is the smallest multiple of g that
\* is greater than or equal to n
C25_BucketRoundsUp ==
    \A s \in Sessions :
        (pc[s] = "PREPARED" /\ ~model_kwargs[s].error)
        => model_kwargs[s].bucket_size
               = SmallestMultiple(Len(call[s].input_ids[1]), call[s].bucket_size)

\* C26: InvalidScoreLogitsProcessor, applied to a batch of score rows,
\* returns every row that holds neither a NaN nor an infinity unchanged
C26_CleanRowsUnchanged ==
    \A s \in Sessions : pc[s] = "SCORED" =>
        \A b \in Batch :
            ~degenerate(scored[s][1].logits[b])
            => scored[s][1].scores[b] = scored[s][1].logits[b]

\* C27: on a model with a soft-prompt prefix, once a session has run a
\* forward pass the key/value pairs of the prefix encoder are in the cache
\* of every layer, in the slots ahead of the keys/values of the real tokens
C27_PrefixInCache ==
    \A s \in Sessions :
        (Stepped(s) /\ sched.pre_seq_len # None)
        => \A l \in Layers, b \in Batch, j \in 0 .. (sched.pre_seq_len - 1) :
               /\ cache_k[l][j][b] = get_prompt(l)[j][b][1]
               /\ cache_v[l][j][b] = get_prompt(l)[j][b][2]

\* C28: in every step of a session the bucket size handed to the forward
\* pass is greater than the length of the sequence at that step and greater
\* than the start_pos of the pass; the slot a one-token pass writes is one of
\* the slots [0, bucket_size) the pass reads back
C28_BucketBeyondSequence ==
    \A s \in Sessions : \A n \in 1 .. Len(fwd[s]) :
        LET pass == fwd[s][n]
        IN /\ pass.bucket_size > pass.first_idx + pass.seq_len
           /\ pass.bucket_size > pass.start_pos
           /\ pass.seq_len = 1 => pass.start_pos \in 0 .. (pass.bucket_size - 1)

\* a prefill whose length is a multiple of the granularity, and a later
\* one-token pass that wrote the last slot of its bucket
C28_Witness ==
    \E s \in Sessions :
        /\ Len(fwd[s]) >= 2
        /\ fwd[s][1].seq_len >= 2
        /\ fwd[s][1].seq_len % gen.bucket_size = 0
        /\ \E n \in 2 .. Len(fwd[s]) :
               /\ fwd[s][n].seq_len = 1
               /\ ~fwd[s][n].error
               /\ fwd[s][n].start_pos = fwd[s][n].bucket_size - 1

\* C29: in every forward call that reaches the layers, prefill or decode,
\* with or without a prefix, the mask handed to the layers is bucket_size
\* wide
C29_MaskWidthIsBucket ==
    \A s \in Sessions : \A n \in 1 .. Len(fwd[s]) :
        LET pass == fwd[s][n]
        IN pass.mask # <<>> =>
               \A b \in Batch : Width(pass.mask[b]) = pass.bucket_size

\* C30: when the attention mask of a call is get_masks of the prompt, the
\* mask kept in the generation state after k steps is get_masks of the
\* sequence with its k new tokens: square of side prompt length + k, entry
\* (i, j) masked exactly when j > i and j is at or after the first bos
C30_MaskUpdateIsRecomputation ==
    \A s \in Sessions :
        (/\ pc[s] # "idle"
         /\ call[s].attention_mask = << get_masks(call[s].input_ids) >>)
        => /\ model_kwargs[s].attention_mask = << get_masks(input_ids[s]) >>
           /\ \A b \in Batch :
                  LET mask == model_kwargs[s].attention_mask[1][b]
                      side == PromptLen(s) + Len(scored[s])
                      bos == IndexOf(input_ids[s][b], bos_token_id)
                  IN /\ DOMAIN mask = 0 .. (side - 1)
                     /\ \A i \in 0 .. (side - 1) :
                            /\ DOMAIN mask[i] = 0 .. (side - 1)
                            /\ \A j \in 0 .. (side - 1) : mask[i][j] <=> (j > i /\ j >= bos)

\* a session that appended a token to a prompt with a token before the bos:
\* its mask has a masked entry, and an allowed one above the diagonal
C30_Witness ==
    \E s \in Sessions :
        /\ Stepped(s)
        /\ call[s].attention_mask # <<>>
        /\ Len(input_ids[s][1]) > PromptLen(s)
        /\ \E i \in 0 .. (Len(input_ids[s][1]) - 1), j \in 0 .. (Len(input_ids[s][1]) - 1) :
               j > i /\ ~model_kwargs[s].attention_mask[1][1][i][j]
        /\ \E i \in 0 .. (Len(input_ids[s][1]) - 1), j \in 0 .. (Len(input_ids[s][1]) - 1) :
               model_kwargs[s].attention_mask[1][1][i][j]

\* C31: the position ids fed to a decode step are the last column of
\* get_position_ids of the whole sequence at that step, token position the
\* position of the mask token and block position the length minus the index
\* of bos, whether they come from the state or are recomputed; an update of
\* the state appends one column, the last one with its block position
\* increased by one, and leaves the columns before it as they were
C31_PositionIdsAreRecomputation ==
    [][\A s \in Sessions :
          /\ (Len(fwd[s]) >= 1 /\ Len(fwd'[s]) = Len(fwd[s]) + 1)
                 => LET pass == fwd'[s][Len(fwd'[s])]
                        full == get_position_ids(input_ids[s], mask_positions_of(input_ids[s]))
                    IN \A b \in Batch :
                           /\ pass.position_ids[b] = << full[b][Len(full[b])] >>
                           /\ pass.position_ids[b][1]
                                  = << IndexOf(input_ids[s][b], mask_token(input_ids[s][b])),
                                       Len(input_ids[s][b])
                                           - IndexOf(input_ids[s][b], bos_token_id) >>
          /\ (pc[s] # "idle" /\ model_kwargs'[s] # model_kwargs[s]
                  /\ model_kwargs[s].position_ids # <<>>)
                 => \A b \in Batch :
                        LET old == model_kwargs[s].position_ids[1][b]
                            new == model_kwargs'[s].position_ids[1][b]
                        IN /\ Len(new) = Len(old) + 1
                           /\ SubSeq(new, 1, Len(old)) = old
                           /\ new[Len(new)] = <<old[Len(old)][1], old[Len(old)][2] + 1>>]_vars

\* C32: the flag of every row is non-zero when a session starts; a flag that
\* is 0 is 0 after every later step, whatever token the step appends to the
\* row; the step after which every flag is 0 is the last of the session
C32_FlagsMonotone ==
    [][\A s \in Sessions :
          /\ (pc[s] = "idle" /\ pc'[s] # "idle")
                 => \A b \in Batch : unfinished_sequences'[s][b] # 0
          /\ pc[s] # "idle"
                 => \A b \in Batch :
                        unfinished_sequences[s][b] = 0 => unfinished_sequences'[s][b] = 0
          /\ (pc[s] # "idle" /\ input_ids'[s] # input_ids[s]
                  /\ \A b \in Batch : unfinished_sequences'[s][b] = 0)
                 => pc'[s] = "DONE"]_vars

\* a batch of two rows: the second row got an end-of-sequence token in the
\* first step and another token in the second, its flag is 0 and the flag of
\* the first row is not
C32_Witness ==
    \E s \in Sessions :
        /\ Len(scored[s]) = 2
        /\ gen.eos_token_id = <<3>>
        /\ scored[s][1].next_tokens[2] = 3
        /\ scored[s][2].next_tokens[2] # 3
        /\ unfinished_sequences[s][2] = 0
        /\ unfinished_sequences[s][1] # 0

====
